---- MODULE Spec2Model ----
(***************************************************************************)
(* Hdf5Source (gunpowder/nodes/hdf5_source.py): a batch provider that      *)
(* serves sub-volumes of the datasets of one HDF5 file.  The model covers  *)
(* the object's attributes, the file it reads, and its three operations    *)
(* setup, get_spec and request_batch, each as one atomic action.           *)
(*                                                                         *)
(* Conventions.  A Python value that may be absent is a tagged record:     *)
(* [tag |-> "unset"] (the attribute was never assigned), [tag |-> "None"]  *)
(* or [tag |-> "some", v |-> value].  Tuples are sequences; array indices  *)
(* are 0-based as in numpy, axes are numbered from 1.                      *)
(***************************************************************************)
EXTENDS Integers, Sequences, FiniteSets

VARIABLES
    store,                  \* contents of the HDF5 file self.filename: key -> dataset
    raw_dataset,            \* self.raw_dataset
    gt_dataset,             \* self.gt_dataset
    gt_mask_dataset,        \* self.gt_mask_dataset
    specified_resolution,   \* self.specified_resolution
    dims,                   \* self.dims
    spec,                   \* self.spec
    setup_completed,        \* history: some call of setup has returned normally
    batch_spec,             \* the request the pipeline issues: request_batch's argument
    batch,                  \* the Batch object of the last request_batch call
    ret,                    \* how the last call ended: operation, exception, source line
    trace                   \* file operations of the last call: <<op, handle, key>>

vars == <<store, raw_dataset, gt_dataset, gt_mask_dataset, specified_resolution,
          dims, spec, setup_completed, batch_spec, batch, ret, trace>>

(***************************************************************************)
(* Bounds of the model.                                                    *)
(***************************************************************************)
MaxExtent == 2      \* largest extent of a dataset (and of a requested ROI) on one axis
MaxPositives == 2   \* largest number of positive elements in a mask
MaxOffset == 1      \* largest offset of a requested ROI on one axis

Ranks == {1, 2}     \* dimensionalities of the datasets

(***************************************************************************)
(* Python values.                                                          *)
(***************************************************************************)
Unset == [tag |-> "unset"]
None == [tag |-> "None"]
Some(x) == [tag |-> "some", v |-> x]

Min(S) == CHOOSE x \in S : \A y \in S : x <= y
Max(S) == CHOOSE x \in S : \A y \in S : x >= y

\* min(a, b) of Python
min(a, b) == IF b < a THEN b ELSE a

\* (x,) * n
Repeat(x, n) == [d \in 1..n |-> x]

(***************************************************************************)
(* gunpowder.roi.Roi: an offset and a shape of the same length.            *)
(***************************************************************************)
Roi(offset, shape) == [offset |-> offset, shape |-> shape]

\* Roi.contains(other): other lies inside self on every axis
contains(self, other) ==
    /\ Len(other.offset) = Len(self.offset)
    /\ \A d \in 1..Len(self.offset) :
          /\ other.offset[d] >= self.offset[d]
          /\ other.offset[d] + other.shape[d] <= self.offset[d] + self.shape[d]

\* Roi.get_bounding_box(): per axis the half-open slice [offset, offset + shape)
get_bounding_box(roi) ==
    [d \in 1..Len(roi.offset) |-> <<roi.offset[d], roi.offset[d] + roi.shape[d]>>]

\* gunpowder.provider_spec.ProviderSpec(): a fresh spec
ProviderSpec == [roi |-> None, gt_roi |-> None, has_gt |-> FALSE, has_gt_mask |-> FALSE]

(***************************************************************************)
(* The HDF5 file.  A dataset has a shape, an array of values and an        *)
(* optional 'resolution' attribute; a key the file lacks maps to Missing.  *)
(***************************************************************************)
Keys == {"raw", "labels", "mask"}

Missing == [tag |-> "missing"]

Shapes == UNION {[1..r -> 1..MaxExtent] : r \in Ranks}

\* the index tuples of an array of the given shape
Indices(shape) ==
    {i \in [1..Len(shape) -> 0..(MaxExtent - 1)] : \A d \in 1..Len(shape) : i[d] < shape[d]}

Dataset(shape, data, resolution) ==
    [tag |-> "dataset", shape |-> shape, data |-> data, resolution |-> resolution]

\* key in f
InFile(f, ds) == f[ds].tag = "dataset"

\* np.where(mask > 0): the index tuples of the positive elements
where_positive(mask) == {i \in DOMAIN mask : mask[i] > 0}

\* np.min / np.max over one coordinate of the positive elements; numpy raises
\* ValueError for a reduction over an empty array
np_min(good, d) ==
    IF good = {} THEN [raised |-> "ValueError", v |-> 0]
    ELSE [raised |-> "None", v |-> Min({i[d] : i \in good})]

np_max(good, d) ==
    IF good = {} THEN [raised |-> "ValueError", v |-> 0]
    ELSE [raised |-> "None", v |-> Max({i[d] : i \in good})]

(***************************************************************************)
(* setup                                                                   *)
(***************************************************************************)
\* the datasets the loop of setup visits
SetupDatasets == <<raw_dataset, gt_mask_dataset, gt_mask_dataset>>

\* the loop of setup from its k-th dataset on, self.dims being d
RECURSIVE ResolveDims(_, _, _)
ResolveDims(list, k, d) ==
    IF k > Len(list) THEN [raised |-> "None", line |-> 46, dims |-> d]
    ELSE LET ds == list[k] IN
         IF ds.tag = "None" THEN ResolveDims(list, k + 1, d)
         ELSE IF ~InFile(store, ds.v)
              THEN [raised |-> "RuntimeError", line |-> 37, dims |-> d]
         ELSE IF d.tag = "None"
              THEN ResolveDims(list, k + 1, Some(store[ds.v].shape))
         ELSE LET shape == store[ds.v].shape IN
              IF Len(shape) # Len(d.v)
              THEN [raised |-> "AssertionError", line |-> 43, dims |-> d]
              ELSE ResolveDims(list, k + 1,
                       Some([a \in 1..Len(shape) |-> min(d.v[a], shape[a])]))

\* the ground-truth ROI of setup: the bounding box of the positive mask elements
GtRoi_InclusiveMax(mask, n) ==
    LET good == where_positive(mask)
        min_good == [d \in 1..n |-> np_min(good, d)]
        max_good == [d \in 1..n |-> np_max(good, d)]
    IN  IF \E d \in 1..n : min_good[d].raised # "None" \/ max_good[d].raised # "None"
        THEN [raised |-> "ValueError", line |-> 58, roi |-> None]
        ELSE [raised |-> "None", line |-> 60,
              roi |-> Some(Roi([d \in 1..n |-> min_good[d].v],
                               [d \in 1..n |-> max_good[d].v - min_good[d].v]))]

GtRoi(mask, n) ==
    LET good == where_positive(mask)
        min_good == [d \in 1..n |-> np_min(good, d)]
        max_good == [d \in 1..n |-> np_max(good, d)]
    IN  IF \E d \in 1..n : min_good[d].raised # "None" \/ max_good[d].raised # "None"
        THEN [raised |-> "ValueError", line |-> 58, roi |-> None]
        ELSE [raised |-> "None", line |-> 60,
              roi |-> Some(Roi([d \in 1..n |-> min_good[d].v],
                               [d \in 1..n |-> (max_good[d].v + 1) - min_good[d].v]))]

\* the whole of setup: the attributes it leaves, how it ends, the file operations
setup ==
    LET loop == ResolveDims(SetupDatasets, 1, None) IN
    IF loop.raised # "None"
    THEN [dims |-> loop.dims, spec |-> spec, raised |-> loop.raised, line |-> loop.line,
          trace |-> << <<"open", 1, "">> >>]
    ELSE
    LET n == Len(loop.dims.v)
        spec1 == [ProviderSpec EXCEPT !.roi = Some(Roi(Repeat(0, n), loop.dims.v))]
        flags(s) == [s EXCEPT !.has_gt = (gt_dataset.tag # "None"),
                              !.has_gt_mask = (gt_mask_dataset.tag # "None")]
        tr1 == << <<"open", 1, "">>, <<"close", 1, "">> >>
    IN  IF gt_mask_dataset.tag = "None"
        THEN [dims |-> loop.dims, spec |-> Some(flags(spec1)), raised |-> "None",
              line |-> 64, trace |-> tr1]
        ELSE
        LET gt == GtRoi(store[gt_mask_dataset.v].data, n)
            tr2 == tr1 \o << <<"open", 2, "">>, <<"read", 2, gt_mask_dataset.v>>,
                             <<"close", 2, "">> >>
        IN  IF gt.raised # "None"
            THEN [dims |-> loop.dims, spec |-> Some(spec1), raised |-> gt.raised,
                  line |-> gt.line, trace |-> tr2]
            ELSE [dims |-> loop.dims, spec |-> Some(flags([spec1 EXCEPT !.gt_roi = gt.roi])),
                  raised |-> "None", line |-> 64, trace |-> tr2]

\* get_spec: self.spec, an AttributeError while setup never assigned it
get_spec ==
    IF spec.tag = "unset" THEN [raised |-> "AttributeError", line |-> 67]
    ELSE [raised |-> "None", line |-> 67]

\* no call yet, no request, no Batch built
NoCall == [op |-> "__init__", raised |-> "None", line |-> 24]
NoBatchSpec == [input_roi |-> None, output_roi |-> None, with_volumes |-> {}]
NoBatch == [spec |-> NoBatchSpec, resolution |-> Unset, volumes |-> << >>]

(***************************************************************************)
(* request_batch                                                           *)
(***************************************************************************)
VolumeTypes == {"RAW", "GT_LABELS", "GT_MASK"}

\* the names bound in the module's namespace: its imports, logger and the class
ModuleGlobals ==
    {"logging", "np", "Batch", "h5py", "BatchProvider", "Timing", "ProviderSpec",
     "Roi", "VolumeType", "logger", "Hdf5Source"}

\* Volume(data, interpolate=...)
Volume(data, interpolate) == [data |-> data, interpolate |-> interpolate]

\* __read: the part of dataset ds inside the bounding box of roi; KeyError when the
\* file has no such key
read(f, ds, roi) ==
    IF ds.tag = "some" /\ InFile(f, ds.v)
    THEN [raised |-> "None", v |-> [ds |-> ds.v, box |-> get_bounding_box(roi)]]
    ELSE [raised |-> "KeyError", v |-> [ds |-> "", box |-> << >>]]

\* the checks of request_batch before it touches the file
Validate_InputOnly(s, bs) ==
    IF "GT_LABELS" \in bs.with_volumes /\ ~s.has_gt
    THEN [raised |-> "RuntimeError", line |-> 77]
    ELSE IF "GT_MASK" \in bs.with_volumes /\ ~s.has_gt_mask
    THEN [raised |-> "RuntimeError", line |-> 80]
    ELSE IF ~contains(s.roi.v, bs.input_roi)
    THEN [raised |-> "RuntimeError", line |-> 85]
    ELSE [raised |-> "None", line |-> 89]

Validate(s, bs) ==
    IF "GT_LABELS" \in bs.with_volumes /\ ~s.has_gt
    THEN [raised |-> "RuntimeError", line |-> 77]
    ELSE IF "GT_MASK" \in bs.with_volumes /\ ~s.has_gt_mask
    THEN [raised |-> "RuntimeError", line |-> 80]
    ELSE IF ~contains(s.roi.v, bs.input_roi)
    THEN [raised |-> "RuntimeError", line |-> 85]
    ELSE IF ~contains(s.roi.v, bs.output_roi)
    THEN [raised |-> "RuntimeError", line |-> 87]
    ELSE [raised |-> "None", line |-> 89]

\* with h5py.File(self.filename, 'r') as f: <body>, the handle being number h: the
\* file is opened, the body runs, and the file is closed however the body ends
ScopedLeaky(h, body) ==
    << <<"open", h, "">> >> \o body.trace
        \o (IF body.raised = "None" THEN << <<"close", h, "">> >> ELSE << >>)

Scoped(h, body) ==
    << <<"open", h, "">> >> \o body.trace \o << <<"close", h, "">> >>

\* f[self.raw_dataset].attrs['resolution']
stored_resolution ==
    IF InFile(store, raw_dataset.v) /\ store[raw_dataset.v].resolution.tag = "some"
    THEN [raised |-> "None", v |-> store[raw_dataset.v].resolution.v,
          trace |-> << <<"attr", 1, raw_dataset.v>> >>]
    ELSE [raised |-> "KeyError", v |-> << >>, trace |-> << <<"attr", 1, raw_dataset.v>> >>]

\* the property resolution (its file handle is number 1)
resolution_StoredFirst ==
    LET attr == stored_resolution IN
    IF attr.raised = "None"
    THEN [raised |-> "None", line |-> 126, v |-> attr.v, trace |-> Scoped(1, attr)]
    ELSE IF specified_resolution.tag # "None"
    THEN [raised |-> "None", line |-> 122, v |-> specified_resolution.v, trace |-> << >>]
    ELSE [raised |-> "None", line |-> 132, v |-> Repeat(1, Len(dims.v)),
          trace |-> Scoped(1, attr)]

resolution ==
    IF specified_resolution.tag # "None"
    THEN [raised |-> "None", line |-> 122, v |-> specified_resolution.v, trace |-> << >>]
    ELSE
    LET attr == stored_resolution IN
    IF attr.raised = "None"
    THEN [raised |-> "None", line |-> 126, v |-> attr.v, trace |-> Scoped(1, attr)]
    ELSE IF dims.tag = "some"
    THEN [raised |-> "None", line |-> 132, v |-> Repeat(1, Len(dims.v)),
          trace |-> Scoped(1, attr)]
    ELSE [raised |-> (IF dims.tag = "unset" THEN "AttributeError" ELSE "TypeError"),
          line |-> 128, v |-> << >>, trace |-> Scoped(1, attr)]

\* the body of the with statement of request_batch, its file handle being number h
ReadVolumes(bs, h) ==
    IF "Volume" \notin ModuleGlobals
    THEN [raised |-> "NameError", line |-> 96, volumes |-> << >>, trace |-> << >>]
    ELSE
    LET raw == read(store, raw_dataset, bs.input_roi)
        gt == read(store, gt_dataset, bs.output_roi)
        mask == read(store, gt_mask_dataset, bs.output_roi)
        v1 == [k \in {"RAW"} |-> Volume(raw.v, TRUE)]
        v2 == IF "GT_LABELS" \in bs.with_volumes
              THEN [k \in {"RAW", "GT_LABELS"} |->
                       IF k = "RAW" THEN v1[k] ELSE Volume(gt.v, FALSE)]
              ELSE v1
        v3 == IF "GT_MASK" \in bs.with_volumes
              THEN [k \in DOMAIN v2 \cup {"GT_MASK"} |->
                       IF k = "GT_MASK" THEN Volume(mask.v, FALSE) ELSE v2[k]]
              ELSE v2
        t1 == << <<"read", h, raw_dataset.v>> >>
        t2 == IF "GT_LABELS" \in bs.with_volumes
              THEN t1 \o << <<"read", h, gt_dataset.v>> >> ELSE t1
        t3 == IF "GT_MASK" \in bs.with_volumes
              THEN t2 \o << <<"read", h, gt_mask_dataset.v>> >> ELSE t2
    IN  IF raw.raised # "None"
        THEN [raised |-> raw.raised, line |-> 113, volumes |-> << >>, trace |-> << >>]
        ELSE IF "GT_LABELS" \in bs.with_volumes /\ gt.raised # "None"
        THEN [raised |-> gt.raised, line |-> 113, volumes |-> v1, trace |-> t1]
        ELSE IF "GT_MASK" \in bs.with_volumes /\ mask.raised # "None"
        THEN [raised |-> mask.raised, line |-> 113, volumes |-> v2, trace |-> t2]
        ELSE [raised |-> "None", line |-> 109, volumes |-> v3, trace |-> t3]

\* the whole of request_batch(bs): the Batch it built, how it ends, the file operations
request_batch(bs) ==
    IF get_spec.raised # "None"
    THEN [raised |-> get_spec.raised, line |-> get_spec.line, batch |-> NoBatch,
          trace |-> << >>]
    ELSE
    LET check == Validate(spec.v, bs) IN
    IF check.raised # "None"
    THEN [raised |-> check.raised, line |-> check.line, batch |-> NoBatch, trace |-> << >>]
    ELSE
    LET res == resolution
        b1 == [spec |-> bs, resolution |-> Unset, volumes |-> << >>]
    IN
    IF res.raised # "None"
    THEN [raised |-> res.raised, line |-> res.line, batch |-> b1, trace |-> res.trace]
    ELSE
    LET h == IF res.trace = << >> THEN 1 ELSE 2
        b2 == [b1 EXCEPT !.resolution = Some(res.v)]
        body == ReadVolumes(bs, h)
    IN  [raised |-> body.raised, line |-> body.line,
         batch |-> [b2 EXCEPT !.volumes = body.volumes],
         trace |-> res.trace \o Scoped(h, body)]

(***************************************************************************)
(* The state after construction.                                           *)
(***************************************************************************)
SpecifiedRes == <<4, 4>>    \* a resolution given to the constructor
StoredRes == <<2, 3>>       \* a 'resolution' attribute stored with the raw dataset

Zeros(shape) == [i \in Indices(shape) |-> 0]

\* the masks of a shape with at most MaxPositives positive elements
Masks(shape) ==
    {m \in [Indices(shape) -> {0, 1}] : Cardinality(where_positive(m)) <= MaxPositives}

\* the raw datasets: any shape, with or without a stored resolution
RawDatasets(resolutions) ==
    {Dataset(sh, Zeros(sh), r) : sh \in Shapes, r \in resolutions}

LabelDatasets == {Dataset(sh, Zeros(sh), None) : sh \in Shapes}

MaskDatasets == UNION {{Dataset(sh, m, None) : m \in Masks(sh)} : sh \in Shapes}

\* what the file may hold under the key ds names: nothing is looked up, and so nothing
\* is modelled, under a key the source was not given
Entries(ds, datasets) == IF ds.tag = "None" THEN {Missing} ELSE datasets \cup {Missing}

\* the files over the given datasets
Files(raws, labels, masks) ==
    {[k \in Keys |-> IF k = "raw" THEN r ELSE IF k = "labels" THEN l ELSE m] :
        r \in Entries(raw_dataset, raws), l \in Entries(gt_dataset, labels),
        m \in Entries(gt_mask_dataset, masks)}

\* the ROIs of n axes a request may name: cubes, lying inside or across the faces of
\* the (possibly non-cubic) volume
Rois(n) == {Roi(Repeat(o, n), Repeat(e, n)) : o \in 0..MaxOffset, e \in 1..MaxExtent}

BatchSpec(input_roi, output_roi, with_volumes) ==
    [input_roi |-> input_roi, output_roi |-> output_roi, with_volumes |-> with_volumes]

\* requests have the dimensionality of the raw dataset when the file has one
RequestRanks(f) == IF InFile(f, "raw") THEN {Len(f["raw"].shape)} ELSE Ranks

\* the request for the first element of the raw volume
UnitRequests(f) ==
    {BatchSpec(Roi(Repeat(0, n), Repeat(1, n)), Roi(Repeat(0, n), Repeat(1, n)), {"RAW"}) :
        n \in RequestRanks(f)}

\* every request within the bounds
BatchSpecs(f) ==
    UNION {{BatchSpec(i, o, w) : i \in Rois(n), o \in Rois(n), w \in SUBSET VolumeTypes} :
        n \in RequestRanks(f)}

InitObject ==
    /\ raw_dataset = Some("raw")
    /\ gt_dataset \in {None, Some("labels")}
    /\ gt_mask_dataset \in {None, Some("mask")}
    /\ dims = Unset
    /\ spec = Unset
    /\ setup_completed = FALSE
    /\ batch = NoBatch
    /\ ret = NoCall
    /\ trace = << >>

\* every file within the bounds, no resolution given or stored, one request
Init ==
    /\ InitObject
    /\ specified_resolution = None
    /\ store \in Files(RawDatasets({None}), LabelDatasets, MaskDatasets)
    /\ batch_spec \in UnitRequests(store)

\* the mask of a shape that is zero everywhere, and the one positive at the origin only
BatchMasks(shape) ==
    {m \in Masks(shape) : \A i \in DOMAIN m : m[i] > 0 => \A d \in 1..Len(shape) : i[d] = 0}

\* the labels and masks of the shape of the raw dataset r
SameShape(r, datasets) ==
    IF r.tag = "dataset" THEN {x \in datasets : x.shape = r.shape} ELSE {}

\* co-registered files: labels and mask have the shape of the raw dataset
BatchFiles ==
    {[k \in Keys |-> IF k = "raw" THEN f[1] ELSE IF k = "labels" THEN f[2] ELSE f[3]] :
        f \in UNION {{<<r, l, m>> :
                         l \in Entries(gt_dataset, SameShape(r, LabelDatasets)),
                         m \in Entries(gt_mask_dataset,
                                       SameShape(r, {Dataset(r.shape, x, None) :
                                                        x \in BatchMasks(r.shape)}))} :
                     r \in RawDatasets({None, Some(StoredRes)}) \cup {Missing}}}

\* co-registered files, a resolution given or not, every request within the bounds
InitBatch ==
    /\ InitObject
    /\ specified_resolution \in {None, Some(SpecifiedRes)}
    /\ store \in BatchFiles
    /\ batch_spec \in BatchSpecs(store)

(***************************************************************************)
(* The operations.                                                         *)
(***************************************************************************)
Setup ==
    LET r == setup IN
    /\ dims' = r.dims
    /\ spec' = r.spec
    /\ setup_completed' = (setup_completed \/ r.raised = "None")
    /\ ret' = [op |-> "setup", raised |-> r.raised, line |-> r.line]
    /\ trace' = r.trace
    /\ UNCHANGED <<store, raw_dataset, gt_dataset, gt_mask_dataset, specified_resolution,
                   batch_spec, batch>>

GetSpec ==
    LET r == get_spec IN
    /\ ret' = [op |-> "get_spec", raised |-> r.raised, line |-> r.line]
    /\ trace' = << >>
    /\ UNCHANGED <<store, raw_dataset, gt_dataset, gt_mask_dataset, specified_resolution,
                   dims, spec, setup_completed, batch_spec, batch>>

RequestBatch ==
    LET r == request_batch(batch_spec) IN
    /\ batch' = r.batch
    /\ ret' = [op |-> "request_batch", raised |-> r.raised, line |-> r.line]
    /\ trace' = r.trace
    /\ UNCHANGED <<store, raw_dataset, gt_dataset, gt_mask_dataset, specified_resolution,
                   dims, spec, setup_completed, batch_spec>>

Next == Setup \/ GetSpec \/ RequestBatch

Spec == Init /\ [][Next]_vars

SpecBatch == InitBatch /\ [][Next]_vars

(***************************************************************************)
(* The properties.                                                         *)
(***************************************************************************)
\* the keys the source was constructed with
Configured ==
    {ds.v : ds \in {x \in {raw_dataset, gt_dataset, gt_mask_dataset} : x.tag = "some"}}

\* the positive elements of the configured mask
Positive == {i \in DOMAIN store["mask"].data : store["mask"].data[i] >= 1}

\* the box of ROI inner lies within the box of ROI outer (half-open intervals, per axis)
Within(inner, outer) ==
    \A d \in 1..Len(outer.offset) :
        /\ outer.offset[d] <= inner.offset[d]
        /\ inner.offset[d] + inner.shape[d] <= outer.offset[d] + outer.shape[d]

\* the last call was request_batch on a source that has a spec
Requested == ret.op = "request_batch" /\ spec.tag = "some"

\* the request asks for a kind the spec does not offer, or for a ROI outside spec.roi
FailsValidation ==
    \/ "GT_LABELS" \in batch_spec.with_volumes /\ ~spec.v.has_gt
    \/ "GT_MASK" \in batch_spec.with_volumes /\ ~spec.v.has_gt_mask
    \/ ~Within(batch_spec.input_roi, spec.v.roi.v)
    \/ ~Within(batch_spec.output_roi, spec.v.roi.v)

\* C1: after a successful setup over datasets that all exist with one dimensionality,
\* spec.roi has offset zero and, on every axis, the least extent among ALL configured
\* datasets (raw, labels, mask).
C1_RoiIsMinOfAllShapes ==
    ( /\ ret.op = "setup" /\ ret.raised = "None"
      /\ \A k \in Configured :
            InFile(store, k) /\ Len(store[k].shape) = Len(store["raw"].shape) )
    => /\ spec.tag = "some"
       /\ \A d \in 1..Len(store["raw"].shape) :
             /\ spec.v.roi.v.offset[d] = 0
             /\ \A k \in Configured : spec.v.roi.v.shape[d] <= store[k].shape[d]
             /\ \E k \in Configured : spec.v.roi.v.shape[d] = store[k].shape[d]

\* C2: setup fails with the configuration error whenever a configured key (raw, labels
\* or mask) is not in the file, and leaves no spec.
C2_MissingKeyFailsSetup ==
    (ret.op = "setup" /\ \E k \in Configured : ~InFile(store, k))
    => ret.raised = "RuntimeError" /\ spec.tag = "unset"

\* C3: get_spec or request_batch called while no setup has completed (none called, or
\* every one raised) fails rather than returning.
C3_FailsBeforeSetupCompletes ==
    (ret.op \in {"get_spec", "request_batch"} /\ ~setup_completed) => ret.raised # "None"

\* C4: a request_batch call that fails validation raises and performs no read of the
\* file (no array read, no attribute read) during the call.
C4_InvalidRequestReadsNothing ==
    (Requested /\ FailsValidation)
    => /\ ret.raised # "None"
       /\ \A k \in 1..Len(trace) : trace[k][1] \notin {"read", "attr"}

\* C4 happens: a request is rejected for its output ROI alone
C4_Witness ==
    /\ Requested /\ ret.raised = "RuntimeError"
    /\ batch_spec.with_volumes = {"RAW"}
    /\ Within(batch_spec.input_roi, spec.v.roi.v)
    /\ ~Within(batch_spec.output_roi, spec.v.roi.v)

\* C5: a request that passes validation, and whose datasets are all in the file, returns
\* a batch with a volume under exactly the requested kinds: RAW over input_roi, GT_LABELS
\* and GT_MASK over output_roi.
C5_ValidRequestReturnsRequestedVolumes ==
    (Requested /\ ~FailsValidation /\ \A k \in Configured : InFile(store, k))
    => /\ ret.raised = "None"
       /\ DOMAIN batch.volumes = batch_spec.with_volumes
       /\ \A k \in DOMAIN batch.volumes :
             batch.volumes[k].data =
                 [ds |-> CASE k = "RAW" -> "raw" [] k = "GT_LABELS" -> "labels"
                           [] OTHER -> "mask",
                  box |-> [d \in 1..Len(batch_spec.input_roi.offset) |->
                             IF k = "RAW"
                             THEN <<batch_spec.input_roi.offset[d],
                                    batch_spec.input_roi.offset[d]
                                        + batch_spec.input_roi.shape[d]>>
                             ELSE <<batch_spec.output_roi.offset[d],
                                    batch_spec.output_roi.offset[d]
                                        + batch_spec.output_roi.shape[d]>>]]

\* C6: setup over a configured mask without a positive element raises the explicit
\* empty-mask error, and not from the min/max reduction (line 58) over no coordinates.
C6_EmptyMaskRaisesEmptyMaskError ==
    ( /\ ret.op = "setup" /\ gt_mask_dataset.tag = "some"
      /\ InFile(store, "raw") /\ InFile(store, "mask")
      /\ Len(store["mask"].shape) = Len(store["raw"].shape)
      /\ Positive = {} )
    => ret.raised = "EmptyMaskError" /\ ret.line # 58

\* C7: once setup has completed with a mask configured, spec.gt_roi is the least box
\* holding every positive element of the mask: on every axis all positive elements lie
\* in [offset, offset + shape), one lies at offset and one at offset + shape - 1.
C7_GtRoiIsBoundingBox ==
    (setup_completed /\ gt_mask_dataset.tag = "some")
    => /\ spec.tag = "some" /\ spec.v.gt_roi.tag = "some"
       /\ Positive # {}
       /\ LET gt == spec.v.gt_roi.v IN
          /\ Len(gt.offset) = Len(store["mask"].shape)
          /\ Len(gt.shape) = Len(store["mask"].shape)
          /\ \A d \in 1..Len(store["mask"].shape) :
                /\ \A i \in Positive : gt.offset[d] <= i[d] /\ i[d] < gt.offset[d] + gt.shape[d]
                /\ \E i \in Positive : i[d] = gt.offset[d]
                /\ \E i \in Positive : i[d] = gt.offset[d] + gt.shape[d] - 1

\* C7 happens: two positive elements in one row of a mask, away from the origin
C7_Witness ==
    /\ setup_completed /\ gt_mask_dataset.tag = "some"
    /\ Positive = {<<1, 0>>, <<1, 1>>}
    /\ spec.v.gt_roi.v = Roi(<<1, 0>>, <<1, 2>>)

\* C8: when request_batch has exited, every file handle it opened has been closed, and
\* its array reads all went through one handle, while that handle was open.
C8_SessionsReleased ==
    ret.op = "request_batch"
    => /\ \A k \in 1..Len(trace) :
             trace[k][1] = "open"
             => \E j \in (k + 1)..Len(trace) : trace[j] = <<"close", trace[k][2], "">>
       /\ \A j, k \in 1..Len(trace) :
             (trace[j][1] = "read" /\ trace[k][1] = "read") => trace[j][2] = trace[k][2]
       /\ \A k \in 1..Len(trace) :
             trace[k][1] = "read"
             => \E j \in 1..(k - 1) :
                   /\ trace[j] = <<"open", trace[k][2], "">>
                   /\ \A m \in (j + 1)..(k - 1) : trace[m] # <<"close", trace[k][2], "">>

\* C8 happens: a call opened the file twice (for the resolution attribute, then for the
\* arrays) and left raising
C8_Witness ==
    /\ ret.op = "request_batch" /\ ret.raised # "None"
    /\ Len(trace) = 5
    /\ trace[4] = <<"open", 2, "">>

\* C9: the resolution attached to the batch of a request that passed validation is the
\* one given at construction if any, else the one stored with the raw dataset if any,
\* else ones, one per axis of spec.roi; in each case the call goes on to open the file
\* for the arrays (line 94) rather than end in the resolution lookup.
C9_ResolutionPrecedence ==
    (Requested /\ ~FailsValidation)
    => /\ batch.resolution.tag = "some"
       /\ batch.resolution.v =
             (IF specified_resolution.tag = "some" THEN specified_resolution.v
              ELSE IF store["raw"].resolution.tag = "some" THEN store["raw"].resolution.v
              ELSE [d \in 1..Len(spec.v.roi.v.shape) |-> 1])
       /\ ret.line >= 94

\* C9 happens: nothing given, nothing stored, a volume of two axes
C9_Witness ==
    /\ Requested /\ ~FailsValidation
    /\ specified_resolution.tag = "None" /\ store["raw"].resolution.tag = "None"
    /\ batch.resolution = Some(<<1, 1>>)

\* C10: once setup has completed with a mask configured, spec.gt_roi lies within
\* spec.roi.
C10_GtRoiInsideRoi ==
    (setup_completed /\ gt_mask_dataset.tag = "some" /\ spec.v.gt_roi.tag = "some")
    => Within(spec.v.gt_roi.v, spec.v.roi.v)

====
